---- MODULE Spec2Model ----
(***************************************************************************)
(* State-machine model of src/src/App.jsx: the Router/Route pair, the      *)
(* FileUploadService component (upload session) and the DownloadPage       *)
(* component (download session).                                           *)
(*                                                                         *)
(* React state is modelled by one variable per useState cell.  A handler   *)
(* and the state updates it makes up to its next await are one step: the   *)
(* updates of one event, or of one continuation after an await, are        *)
(* committed together (React's batched updates).  A component that is not  *)
(* mounted holds the initial values of its cells; a request issued by an   *)
(* instance that has been unmounted since is kept in flight with           *)
(* live = FALSE and its callbacks no longer change any cell.               *)
(*                                                                         *)
(* Text that the code inspects (URLs, paths) is a sequence of one-char     *)
(* strings; text it only passes on (messages, bodies) is a string.         *)
(***************************************************************************)
EXTENDS Integers, Sequences, FiniteSets, TLC

VARIABLES
    currentPath,     \* Router: useState(window.location.pathname)
    entries,         \* session-history entries of this tab (pushState / initial)
    selectedFiles,   \* FileUploadService: useState([])
    isUploading,     \* FileUploadService: useState(false)
    uploadProgress,  \* FileUploadService: useState(0)
    result,          \* FileUploadService: useState(null)
    xhrs,            \* XMLHttpRequests sent and not yet completed
    fileId,          \* DownloadPage: useState(getFileIdFromPath())
    downloadStatus,  \* DownloadPage: useState('loading')
    errorMessage,    \* DownloadPage: useState('')
    fileInfo,        \* DownloadPage: useState(null)
    effect,          \* DownloadPage: "pending", "ran" or "off" (not mounted)
    fetches,         \* fetch() calls whose downloadFile has not finished
    saves,           \* link.click() calls made for the mounted DownloadPage
    lastOp           \* history: the handler or callback that ran last

uploadVars == <<selectedFiles, isUploading, uploadProgress, result>>
downloadVars == <<fileId, downloadStatus, errorMessage, fileInfo, effect>>
uploadSide == <<selectedFiles, isUploading, uploadProgress, result, xhrs>>
downloadSide == <<fileId, downloadStatus, errorMessage, fileInfo, effect,
                  fetches, saves>>
vars == <<currentPath, entries, selectedFiles, isUploading, uploadProgress,
          result, xhrs, fileId, downloadStatus, errorMessage, fileInfo,
          effect, fetches, saves, lastOp>>

-----------------------------------------------------------------------------
(* Bounds of the model *)

MaxFiles == 2      \* longest FileList a selection or a drop delivers
MaxRequests == 2   \* XMLHttpRequests in flight at once
MaxAbandoned == 1  \* fetches in flight whose DownloadPage has been unmounted
TotalBytes == 2    \* e.total of the progress events of one request

Files == {"f1", "f2"}

\* the number a new request is known by: the least one not in flight
freeId(requests) ==
    CHOOSE i \in 1..(Cardinality(requests) + 1) :
        /\ \A r \in requests : r.id # i
        /\ \A j \in 1..(i - 1) : \E r \in requests : r.id = j

-----------------------------------------------------------------------------
(* Text *)

SLASH == <<"/">>
DOWNLOAD == <<"/", "d", "o", "w", "n", "l", "o", "a", "d", "/">>
HTTP == <<"h", "t", "t", "p">>
\* 'https://upload-qodp.onrender.com'
BACKEND == <<"h", "t", "t", "p", "s", ":", "/", "/", "u", "p", "l", "o", "a",
             "d", "-", "q", "o", "d", "p", ".", "o", "n", "r", "e", "n", "d",
             "e", "r", ".", "c", "o", "m">>
\* window.location.origin of the page the application is served from
ORIGIN == <<"h", "t", "t", "p", "s", ":", "/", "/", "s", "h", "a", "r", "e">>

LineTerminators == {"\n", "\r"}

startsWith(s, p) == Len(s) >= Len(p) /\ SubSeq(s, 1, Len(p)) = p

\* Start positions at which /\/download\/(.+)$/ matches s: the literal
\* prefix, then one or more characters other than line terminators, then
\* the end of the input.
downloadMatches(s) ==
    {i \in 1..Len(s) :
        /\ i + Len(DOWNLOAD) - 1 < Len(s)
        /\ SubSeq(s, i, i + Len(DOWNLOAD) - 1) = DOWNLOAD
        /\ \A j \in (i + Len(DOWNLOAD))..Len(s) : s[j] \notin LineTerminators}

Min(S) == CHOOSE m \in S : \A n \in S : m <= n

\* match[1] of the leftmost match; defined when downloadMatches(s) # {}
downloadGroup(s) == SubSeq(s, Min(downloadMatches(s)) + Len(DOWNLOAD), Len(s))

\* window.location.pathname of the document that the URL `url` loads: the
\* URL parser drops line feeds and carriage returns, the path is what follows
\* the origin, up to the query or the fragment
pathname(url) ==
    LET keep(c) == c \notin LineTerminators
        clean == SelectSeq(url, keep)
        rest == IF startsWith(clean, ORIGIN)
                THEN SubSeq(clean, Len(ORIGIN) + 1, Len(clean))
                ELSE IF startsWith(clean, BACKEND)
                THEN SubSeq(clean, Len(BACKEND) + 1, Len(clean))
                ELSE clean
        cuts == {i \in 1..Len(rest) : rest[i] \in {"?", "#"}}
    IN  IF cuts = {} THEN rest ELSE SubSeq(rest, 1, Min(cuts) - 1)

-----------------------------------------------------------------------------
(* JavaScript values *)

Undef == [t |-> "undef", s |-> <<>>]
JsNull == [t |-> "null", s |-> <<>>]
Str(s) == [t |-> "str", s |-> s]
Truthy(v) == v.t = "str" /\ v.s # <<>>
Or(a, b) == IF Truthy(a) THEN a ELSE b            \* a || b

NoFiles == [t |-> "undef", a |-> <<>>]            \* response.files absent
FileArr(a) == [t |-> "arr", a |-> a]              \* an array is truthy, even []

-----------------------------------------------------------------------------
(* What the upload endpoint can answer *)

Json(k, dl, url, link, files, raw) ==
    [k |-> k, downloadLink |-> dl, url |-> url, link |-> link,
     files |-> files, raw |-> raw]

Obj(dl, url, link, files) == Json("obj", dl, url, link, files, "")
JsonNull == Json("null", Undef, Undef, Undef, NoFiles, "")
SyntaxError == Json("syntax", Undef, Undef, Undef, NoFiles, "")
NoJson == Json("none", Undef, Undef, Undef, NoFiles, "")
\* a string used as the response: every property read of it is undefined
Text(raw) == Json("text", Undef, Undef, Undef, NoFiles, raw)

\* [responseText, JSON.parse(responseText)]
Bodies ==
    {<<"{\"downloadLink\":\"/download/a\"}",
       Obj(Str(DOWNLOAD \o <<"a">>), Undef, Undef, NoFiles)>>,
     <<"{\"url\":\"https://upload-qodp.onrender.com/download/a/b\"}",
       Obj(Undef, Str(BACKEND \o DOWNLOAD \o <<"a", "/", "b">>), Undef, NoFiles)>>,
     <<"{\"downloadLink\":\"\",\"link\":\"/download/a\",\"files\":[{\"name\":\"n\"}]}",
       Obj(Str(<<>>), Undef, Str(DOWNLOAD \o <<"a">>), FileArr(<<"n">>))>>,
     <<"{\"link\":\"/f/a\"}",
       Obj(Undef, Undef, Str(<<"/", "f", "/", "a">>), NoFiles)>>,
     <<"{\"url\":\"http://c/a\"}",
       Obj(Undef, Str(HTTP \o <<":", "/", "/", "c", "/", "a">>), Undef, NoFiles)>>,
     <<"{\"downloadLink\":\"/download/\"}",
       Obj(Str(DOWNLOAD), Undef, Undef, NoFiles)>>,
     <<"{\"ok\":true}", Obj(Undef, Undef, Undef, NoFiles)>>,
     <<"null", JsonNull>>,
     <<"disk full", SyntaxError>>,
     <<"", SyntaxError>>}

Response(status, body) ==
    [status |-> status, responseText |-> body[1], json |-> body[2]]

ErrorBodies == {b \in Bodies : b[1] \in {"disk full", "", "{\"ok\":true}"}}
LinkBody == CHOOSE b \in Bodies : b[2].downloadLink = Str(DOWNLOAD \o <<"a">>)

UploadResponses ==
    {Response(200, b) : b \in Bodies}
        \cup {Response(201, LinkBody)}
        \cup {Response(500, b) : b \in ErrorBodies}

NoResp == [status |-> 0, responseText |-> "", json |-> NoJson]

-----------------------------------------------------------------------------
(* FileUploadService: values of the result cell *)

Null ==
    [type |-> "null", downloadUrl |-> <<>>, backendUrl |-> Undef,
     files |-> <<>>, response |-> NoJson, message |-> ""]

Success(downloadUrl, backendUrl, files, response) ==
    [type |-> "success", downloadUrl |-> downloadUrl, backendUrl |-> backendUrl,
     files |-> files, response |-> response, message |-> ""]

Error(message) ==
    [type |-> "error", downloadUrl |-> <<>>, backendUrl |-> Undef,
     files |-> <<>>, response |-> NoJson, message |-> message]

-----------------------------------------------------------------------------
(* Router and Route *)

Paths == {SLASH, DOWNLOAD \o <<"a">>, DOWNLOAD \o <<"a", "/", "b">>, DOWNLOAD,
          <<"/", "x">>}

\* Route: exact ? currentPath === path : currentPath.startsWith(path)
isMatch_prefix(path, exact, current) == startsWith(current, path)
isMatch(path, exact, current) ==
    IF exact THEN current = path ELSE startsWith(current, path)

UploadMounted(current) == isMatch(SLASH, TRUE, current)
DownloadMounted(current) == isMatch(DOWNLOAD, FALSE, current)

-----------------------------------------------------------------------------
(* FileUploadService *)

FileLists ==
    {fs \in UNION {[1..n -> Files] : n \in 0..MaxFiles} :
        \A i, j \in 1..Len(fs) : i # j => fs[i] # fs[j]}

\* the handler that ran last: its name, the response it handled, an index or
\* status, whether its component instance is still mounted, and the message
\* of the exception it caught; of a callback whose instance is gone only the
\* name is kept.  click tells whether the handler called link.click().
Thrown(op, resp, idx, live, message) ==
    IF live
    THEN [op |-> op, resp |-> resp, idx |-> idx, live |-> TRUE,
          message |-> message, click |-> FALSE]
    ELSE [op |-> op, resp |-> NoResp, idx |-> 0, live |-> FALSE,
          message |-> "", click |-> FALSE]

Clicked(record, clicked) == [record EXCEPT !.click = clicked]

Op(op, resp, idx, live) == Thrown(op, resp, idx, live, "")

\* const handleFiles = (files) => { setSelectedFiles(...); setResult(null) }
handleFiles(files) ==
    /\ UploadMounted(currentPath)
    /\ selectedFiles' = files
    /\ result' = Null
    /\ UNCHANGED <<currentPath, entries, isUploading, uploadProgress, xhrs>>
    /\ UNCHANGED downloadSide

handleFileInputChange ==
    \E files \in FileLists :
        /\ handleFiles(files)
        /\ lastOp' = Op("handleFileInputChange", NoResp, 0, TRUE)

handleDrop ==
    \E files \in FileLists :
        /\ handleFiles(files)
        /\ lastOp' = Op("handleDrop", NoResp, 0, TRUE)

\* selectedFiles.filter((_, i) => i !== index), indices from 1 here
without(files, index) ==
    SubSeq(files, 1, index - 1) \o SubSeq(files, index + 1, Len(files))

\* the remove button of row index, rendered for every file of the batch
removeFile ==
    \E index \in 1..Len(selectedFiles) :
        /\ UploadMounted(currentPath)
        /\ selectedFiles' = without(selectedFiles, index)
        /\ lastOp' = Op("removeFile", NoResp, index, TRUE)
        /\ UNCHANGED <<currentPath, entries, isUploading, uploadProgress,
                       result, xhrs>>
        /\ UNCHANGED downloadSide

\* the Clear Files button, rendered while selectedFiles.length > 0
clearFiles ==
    /\ UploadMounted(currentPath)
    /\ Len(selectedFiles) > 0
    /\ selectedFiles' = <<>>
    /\ result' = Null
    /\ lastOp' = Op("clearFiles", NoResp, 0, TRUE)
    /\ UNCHANGED <<currentPath, entries, isUploading, uploadProgress, xhrs>>
    /\ UNCHANGED downloadSide

\* if (selectedFiles.length === 0) return;
EmptyBatch_never(files) == FALSE
EmptyBatch(files) == Len(files) = 0

\* <button onClick={uploadFiles} disabled={isUploading}>
UploadDisabled_never == FALSE
UploadDisabled == isUploading

\* setResult(null) when an upload starts
ResultAtStart_kept == result
ResultAtStart == Null

\* const xhr = new XMLHttpRequest(); xhr.open('POST', ...); xhr.send(formData)
send_twice(files) ==
    {[id |-> id, files |-> files, loaded |-> 0, live |-> TRUE] :
        id \in {freeId(xhrs), freeId(xhrs) + 1}}
send(files) ==
    {[id |-> freeId(xhrs), files |-> files, loaded |-> 0, live |-> TRUE]}

\* uploadFiles up to its await: the early return, or the three state updates
\* and xhr.open / xhr.send.  The request keeps the files of the render that
\* handled the click (formData and the closure's selectedFiles).
uploadFiles ==
    /\ UploadMounted(currentPath)
    /\ lastOp' = Op("uploadFiles", NoResp, 0, TRUE)
    /\ UNCHANGED downloadSide
    /\ IF EmptyBatch(selectedFiles)
       THEN UNCHANGED <<currentPath, entries, selectedFiles, isUploading,
                        uploadProgress, result, xhrs>>
       ELSE /\ ~UploadDisabled
            /\ Cardinality(xhrs) < MaxRequests
            /\ isUploading' = TRUE
            /\ uploadProgress' = 0
            /\ result' = ResultAtStart
            /\ xhrs' = xhrs \cup send(selectedFiles)
            /\ UNCHANGED <<currentPath, entries, selectedFiles>>

\* (e.loaded / e.total) * 100
percentComplete(loaded, total) == (loaded * 100) \div total

\* xhr.upload 'progress': e.loaded grows from one event to the next
progress ==
    \E x \in xhrs, loaded \in 1..TotalBytes, lengthComputable \in BOOLEAN :
        /\ x.live
        /\ loaded > x.loaded
        /\ xhrs' = (xhrs \ {x}) \cup {[x EXCEPT !.loaded = loaded]}
        /\ uploadProgress' =
              IF lengthComputable
              THEN percentComplete(loaded, TotalBytes)
              ELSE uploadProgress
        /\ lastOp' = Op("progress", NoResp, loaded, x.live)
        /\ UNCHANGED <<currentPath, entries, selectedFiles, isUploading, result>>
        /\ UNCHANGED downloadSide

-----------------------------------------------------------------------------
(* uploadFiles: the promise around the request, and what follows the await *)

Resolved(value) == [ok |-> TRUE, value |-> value, message |-> ""]
Rejected(message) == [ok |-> FALSE, value |-> NoJson, message |-> message]

\* if (xhr.status === 200)
StatusOk(status) == status = 200

\* new Error(xhr.responseText || `HTTP ${xhr.status}`)
rejectMessage(resp) ==
    IF resp.responseText # "" THEN resp.responseText
    ELSE "HTTP " \o ToString(resp.status)

\* try { resolve(JSON.parse(xhr.responseText)) } catch (e) { resolve(xhr.responseText) }
parseBody(resp) ==
    IF resp.json.k = "syntax"
    THEN Resolved(Text(resp.responseText))
    ELSE Resolved(resp.json)

\* xhr.onload
onloadSettles(resp) ==
    IF StatusOk(resp.status) THEN parseBody(resp) ELSE Rejected(rejectMessage(resp))

\* xhr.onerror
NetworkError == "Upload failed - Network error"
onerrorSettles == Rejected(NetworkError)

\* response.downloadLink || response.url || response.link
backendDownloadLink(response) ==
    Or(Or(response.downloadLink, response.url), response.link)

\* the conversion of the backend's link to the frontend's URL
frontendDownloadUrl_raw(link) ==
    IF ~Truthy(link) THEN <<>> ELSE link.s
frontendDownloadUrl(link) ==
    IF ~Truthy(link) THEN <<>>
    ELSE IF downloadMatches(link.s) # {}
         THEN ORIGIN \o DOWNLOAD \o downloadGroup(link.s)
         ELSE IF startsWith(link.s, HTTP) THEN link.s ELSE BACKEND \o link.s

\* response.files || selectedFiles.map(f => ({ name: f.name }))
resultFiles(response, files) ==
    IF response.files.t = "arr" THEN response.files.a ELSE files

\* error.message || 'Upload failed'
uploadErrorMessage(message) == IF message # "" THEN message ELSE "Upload failed"

NullTypeError == "Cannot read properties of null (reading 'downloadLink')"

\* The value setResult receives after the await: the success record, or the
\* error record of the catch block (a rejection, or the TypeError of reading
\* a property of null).
resultAfter(settled, files) ==
    IF ~settled.ok THEN Error(uploadErrorMessage(settled.message))
    ELSE IF settled.value.k = "null" THEN Error(uploadErrorMessage(NullTypeError))
    ELSE Success(frontendDownloadUrl(backendDownloadLink(settled.value)),
                 backendDownloadLink(settled.value),
                 resultFiles(settled.value, files),
                 settled.value)

\* finally { setUploadProgress(0) }
ProgressAtEnd_kept == uploadProgress
ProgressAtEnd == 0

\* setSelectedFiles([]) is on the success path only; the catch block leaves
\* the batch alone
batchAfter_cleared(outcome, files) == <<>>
batchAfter(outcome, files) ==
    IF outcome.type = "success" THEN <<>> ELSE files

\* The continuation of uploadFiles once the promise settles: setResult, on
\* success setSelectedFiles([]), and the finally block.
complete(x, settled) ==
    /\ xhrs' = xhrs \ {x}
    /\ IF x.live
       THEN /\ result' = resultAfter(settled, x.files)
            /\ selectedFiles' = batchAfter(result', selectedFiles)
            /\ isUploading' = FALSE
            /\ uploadProgress' = ProgressAtEnd
       ELSE UNCHANGED uploadVars
    /\ UNCHANGED <<currentPath, entries>>
    /\ UNCHANGED downloadSide

onload ==
    \E x \in xhrs, resp \in UploadResponses :
        /\ complete(x, onloadSettles(resp))
        /\ lastOp' = Op("onload", resp, 0, x.live)

onerror ==
    \E x \in xhrs :
        /\ complete(x, onerrorSettles)
        /\ lastOp' = Op("onerror", NoResp, 0, x.live)

\* The request ends with an event the promise does not listen to: 'abort'
\* (the load is cancelled) or 'timeout' (the network stack times out).  The
\* promise is never settled, so nothing after the await runs.
UnhandledEvents == {"abort", "timeout"}

unhandled ==
    \E x \in xhrs, event \in UnhandledEvents :
        /\ xhrs' = xhrs \ {x}
        /\ lastOp' = Op(event, NoResp, 0, x.live)
        /\ UNCHANGED <<currentPath, entries>>
        /\ UNCHANGED uploadVars
        /\ UNCHANGED downloadSide

-----------------------------------------------------------------------------
(* DownloadPage: response metadata *)

Num(n) == [nan |-> FALSE, n |-> n]
NaN == [nan |-> TRUE, n |-> 0]

Digits == {"0", "1", "2", "3", "4", "5", "6", "7", "8", "9"}
digit(c) == CHOOSE d \in 0..9 : ToString(d) = c

RECURSIVE decimal(_)
decimal(ds) ==
    IF ds = <<>> THEN 0
    ELSE 10 * decimal(SubSeq(ds, 1, Len(ds) - 1)) + digit(ds[Len(ds)])

\* parseInt(text): leading blanks, an optional sign, then the longest run of
\* decimal digits; NaN when there is no digit
parseInt(text) ==
    LET blanks == {i \in 0..Len(text) : \A j \in 1..i : text[j] = " "}
        start == 1 + CHOOSE i \in blanks : \A j \in blanks : j <= i
        signed == start <= Len(text) /\ text[start] \in {"+", "-"}
        first == IF signed THEN start + 1 ELSE start
        runs == {e \in (first - 1)..Len(text) : \A j \in first..e : text[j] \in Digits}
        last == CHOOSE e \in runs : \A f \in runs : f <= e
    IN  IF last < first THEN NaN
        ELSE IF signed /\ text[start] = "-"
             THEN Num(0 - decimal(SubSeq(text, first, last)))
             ELSE Num(decimal(SubSeq(text, first, last)))

FILENAME == <<"f", "i", "l", "e", "n", "a", "m", "e">>
Quotes == {"'", "\""}

\* filenameMatch[1] of /filename[^;=\n]*=((['"]).*?\2|[^;\n]*)/, or <<>> when
\* the header has no match
filenameGroup(cd) ==
    LET eqAfter(i) ==
            {j \in (i + Len(FILENAME))..Len(cd) :
                /\ cd[j] = "="
                /\ \A k \in (i + Len(FILENAME))..(j - 1) : cd[k] \notin {";", "=", "\n"}}
        starts == {i \in 1..Len(cd) :
                      /\ i + Len(FILENAME) - 1 <= Len(cd)
                      /\ SubSeq(cd, i, i + Len(FILENAME) - 1) = FILENAME
                      /\ eqAfter(i) # {}}
    IN  IF starts = {} THEN <<>>
        ELSE LET from == 1 + Min(eqAfter(Min(starts)))
                 closes == {c \in (from + 1)..Len(cd) :
                               /\ from <= Len(cd)
                               /\ cd[from] \in Quotes
                               /\ cd[c] = cd[from]
                               /\ \A k \in (from + 1)..(c - 1) :
                                      cd[k] \notin LineTerminators}
                 plain == {e \in (from - 1)..Len(cd) :
                              \A k \in from..e : cd[k] \notin {";", "\n"}}
             IN  IF closes # {} THEN SubSeq(cd, from, Min(closes))
                 ELSE SubSeq(cd, from, CHOOSE e \in plain : \A f \in plain : f <= e)

\* text.replace(/['"]/g, '')
unquote(text) == SelectSeq(text, LAMBDA c : c \notin Quotes)

DefaultFilename == <<"d", "o", "w", "n", "l", "o", "a", "d">>
OctetStream == <<"a", "p", "p", "l", "i", "c", "a", "t", "i", "o", "n", "/",
                 "o", "c", "t", "e", "t", "-", "s", "t", "r", "e", "a", "m">>

\* let filename = 'download'; if (contentDisposition) { ... }
filenameOf(contentDisposition) ==
    IF Truthy(contentDisposition) /\ filenameGroup(contentDisposition.s) # <<>>
    THEN unquote(filenameGroup(contentDisposition.s))
    ELSE DefaultFilename

\* contentLength ? parseInt(contentLength) : blob.size
sizeOf(contentLength, blobSize) ==
    IF Truthy(contentLength) THEN parseInt(contentLength.s) ELSE Num(blobSize)

\* contentType || 'application/octet-stream'
typeOf(contentType) == Or(contentType, Str(OctetStream))

NoInfo == [set |-> FALSE, filename |-> <<>>, size |-> Num(0), type |-> Undef]
Info(filename, size, type) ==
    [set |-> TRUE, filename |-> filename, size |-> size, type |-> type]

-----------------------------------------------------------------------------
(* What the download endpoint can answer *)

ATTACHMENT == <<"a", "t", "t", "a", "c", "h", "m", "e", "n", "t">>

DlResponse(ok, status, statusText, cd, ct, cl, blobSize) ==
    [ok |-> ok, status |-> status, statusText |-> statusText,
     contentDisposition |-> cd, contentType |-> ct, contentLength |-> cl,
     blobSize |-> blobSize]

NoDlResp == DlResponse(FALSE, 0, "", JsNull, JsNull, JsNull, 0)

DownloadResponses ==
    {DlResponse(TRUE, 200, "OK",
                Str(ATTACHMENT \o <<";", " ">> \o FILENAME
                        \o <<"=", "\"", "r", ".", "p", "\"">>),
                Str(<<"t", "/", "p">>), Str(<<"1", "2">>), 12),
     DlResponse(TRUE, 200, "OK", JsNull, JsNull, JsNull, 3),
     DlResponse(TRUE, 200, "", Str(ATTACHMENT), JsNull, Str(<<"x">>), 3),
     DlResponse(FALSE, 404, "Not Found", JsNull, JsNull, JsNull, 0),
     DlResponse(FALSE, 500, "", JsNull, JsNull, JsNull, 0)}

\* messages of the errors fetch() and response.blob() reject with
TransportErrors == {"Failed to fetch", ""}

-----------------------------------------------------------------------------
(* DownloadPage *)

\* path.match(/\/download\/(.+)$/), then match ? match[1] : null
getFileIdFromPath_whole(path) ==
    IF downloadMatches(path) # {}
    THEN Str(SubSeq(path, Min(downloadMatches(path)), Len(path)))
    ELSE JsNull
getFileIdFromPath(path) ==
    IF downloadMatches(path) # {} THEN Str(downloadGroup(path)) ELSE JsNull

NoFileId == "No file ID provided"

\* `Download failed: ${response.status} ${response.statusText}`
notOkMessage_generic(resp) == "Download failed"
notOkMessage(resp) ==
    "Download failed: " \o ToString(resp.status) \o " " \o resp.statusText

\* error.message || 'Failed to download file'
downloadErrorMessage_raw(message) == message
downloadErrorMessage(message) ==
    IF message # "" THEN message ELSE "Failed to download file"

\* if (!fileId)
missingId_never(id) == FALSE
missingId(id) == ~Truthy(id)

\* useEffect(() => {...}, [fileId]): fileId never changes in an instance, so
\* the effect that has run does not run again
effectAfterRun_again == "pending"
effectAfterRun == "ran"

\* The effect of the mount: the missing-id branch, or downloadFile() up to
\* its await of fetch().
useEffect ==
    /\ effect = "pending"
    /\ effect' = effectAfterRun
    /\ lastOp' = Op("useEffect", NoResp, 0, TRUE)
    /\ IF missingId(fileId)
       THEN /\ downloadStatus' = "error"
            /\ errorMessage' = NoFileId
            /\ UNCHANGED fetches
       ELSE /\ downloadStatus' = "loading"
            /\ fetches' = fetches \cup {[id |-> freeId(fetches), phase |-> "fetch",
                                         live |-> TRUE, resp |-> NoDlResp]}
            /\ UNCHANGED errorMessage
    /\ UNCHANGED <<currentPath, entries, fileId, fileInfo, saves>>
    /\ UNCHANGED uploadSide

\* catch (error) { setDownloadStatus('error'); setErrorMessage(...) }
catch_swallows(f, message) ==
    /\ fetches' = fetches \ {f}
    /\ UNCHANGED <<currentPath, entries, saves>>
    /\ UNCHANGED downloadVars
    /\ UNCHANGED uploadSide
catch(f, message) ==
    /\ fetches' = fetches \ {f}
    /\ IF f.live
       THEN /\ downloadStatus' = "error"
            /\ errorMessage' = downloadErrorMessage(message)
       ELSE UNCHANGED <<downloadStatus, errorMessage>>
    /\ UNCHANGED <<currentPath, entries, fileId, fileInfo, effect, saves>>
    /\ UNCHANGED uploadSide

\* if (!response.ok)
notOk_never(resp) == FALSE
notOk(resp) == ~resp.ok

\* fetch() resolves: the !response.ok throw, or the header reads up to the
\* await of response.blob()
fetchResolves ==
    \E f \in fetches, resp \in DownloadResponses :
        /\ f.phase = "fetch"
        /\ lastOp' = Thrown("fetchResolves", resp, resp.status, f.live,
                            IF notOk(resp) THEN notOkMessage(resp) ELSE "")
        /\ IF notOk(resp)
           THEN catch(f, notOkMessage(resp))
           ELSE /\ fetches' = (fetches \ {f})
                        \cup {[f EXCEPT !.phase = "blob", !.resp = resp]}
                /\ UNCHANGED <<currentPath, entries, saves>>
                /\ UNCHANGED downloadVars
                /\ UNCHANGED uploadSide

fetchRejects ==
    \E f \in fetches, message \in TransportErrors :
        /\ f.phase = "fetch"
        /\ lastOp' = Thrown("fetchRejects", NoResp, 0, f.live, message)
        /\ catch(f, message)

\* response.blob() resolves: the synthetic click that saves the file, then
\* setFileInfo and setDownloadStatus('success').  The click does not depend
\* on the page being mounted; saves counts the clicks of the mounted page,
\* the setters of an unmounted one do nothing.
blobResolves ==
    \E f \in fetches :
        /\ f.phase = "blob"
        /\ lastOp' = Clicked(Op("blobResolves", f.resp, f.resp.status, f.live),
                             TRUE)
        /\ fetches' = fetches \ {f}
        /\ IF f.live
           THEN /\ saves' = saves + 1
                /\ fileInfo' = Info(filenameOf(f.resp.contentDisposition),
                                    sizeOf(f.resp.contentLength, f.resp.blobSize),
                                    typeOf(f.resp.contentType))
                /\ downloadStatus' = "success"
           ELSE UNCHANGED <<saves, fileInfo, downloadStatus>>
        /\ UNCHANGED <<currentPath, entries, fileId, errorMessage, effect>>
        /\ UNCHANGED uploadSide

blobRejects ==
    \E f \in fetches, message \in TransportErrors :
        /\ f.phase = "blob"
        /\ lastOp' = Thrown("blobRejects", f.resp, f.resp.status, f.live, message)
        /\ catch(f, message)

\* response.blob() resolves and one of the calls that save the file throws:
\* URL.createObjectURL and appendChild before link.click(), removeChild and
\* URL.revokeObjectURL after it
saveThrows ==
    \E f \in fetches, clicked \in BOOLEAN, message \in TransportErrors :
        /\ f.phase = "blob"
        /\ lastOp' = Clicked(Thrown("saveThrows", f.resp,
                                    IF clicked THEN 1 ELSE 0, f.live, message),
                             clicked)
        /\ fetches' = fetches \ {f}
        /\ IF f.live
           THEN /\ saves' = IF clicked THEN saves + 1 ELSE saves
                /\ downloadStatus' = "error"
                /\ errorMessage' = downloadErrorMessage(message)
           ELSE UNCHANGED <<saves, downloadStatus, errorMessage>>
        /\ UNCHANGED <<currentPath, entries, fileId, fileInfo, effect>>
        /\ UNCHANGED uploadSide

-----------------------------------------------------------------------------
(* Router: navigation inside the document *)

\* What a change of currentPath does to the components: a component whose
\* Route stops matching is unmounted and its cells are gone, one whose Route
\* starts matching is mounted with fresh cells, one whose Route keeps
\* matching keeps its cells.  The callbacks of an unmounted
\* FileUploadService only set cells, so its requests leave the model; the
\* fetch of an unmounted DownloadPage goes on, abandoned (live = FALSE).
routeTo(path) ==
    /\ currentPath' = path
    /\ IF UploadMounted(currentPath) /\ ~UploadMounted(path)
       THEN /\ selectedFiles' = <<>>
            /\ isUploading' = FALSE
            /\ uploadProgress' = 0
            /\ result' = Null
            /\ xhrs' = {}
       ELSE UNCHANGED <<selectedFiles, isUploading, uploadProgress, result, xhrs>>
    /\ IF DownloadMounted(currentPath) /\ ~DownloadMounted(path)
       THEN /\ fileId' = JsNull
            /\ downloadStatus' = "loading"
            /\ errorMessage' = ""
            /\ fileInfo' = NoInfo
            /\ effect' = "off"
            /\ saves' = 0
            /\ fetches' = {[f EXCEPT !.live = FALSE] : f \in fetches}
       ELSE IF ~DownloadMounted(currentPath) /\ DownloadMounted(path)
       THEN /\ Cardinality(fetches) < MaxAbandoned
            /\ fileId' = getFileIdFromPath(path)
            /\ downloadStatus' = "loading"
            /\ errorMessage' = ""
            /\ fileInfo' = NoInfo
            /\ effect' = "pending"
            /\ UNCHANGED <<fetches, saves>>
       ELSE UNCHANGED <<fileId, downloadStatus, errorMessage, fileInfo, effect,
                        fetches, saves>>

\* window 'popstate': setCurrentPath(window.location.pathname)
handlePopState ==
    \E path \in entries :
        /\ path # currentPath
        /\ effect # "pending"
        /\ routeTo(path)
        /\ lastOp' = Op("handlePopState", NoResp, 0, TRUE)
        /\ UNCHANGED entries

\* Both result views of DownloadPage show the 'Upload New Files' button:
\* navigate('/') is history.pushState and setCurrentPath
goToUpload ==
    /\ DownloadMounted(currentPath)
    /\ effect = "ran"
    /\ downloadStatus \in {"error", "success"}
    /\ entries' = entries \cup {SLASH}
    /\ routeTo(SLASH)
    /\ lastOp' = Op("goToUpload", NoResp, 0, TRUE)

-----------------------------------------------------------------------------
(* Loading the document *)

\* The application right after the document at `path` is loaded: nothing of
\* the previous document survives, its requests included.
load(path) ==
    /\ currentPath' = path
    /\ selectedFiles' = <<>>
    /\ isUploading' = FALSE
    /\ uploadProgress' = 0
    /\ result' = Null
    /\ xhrs' = {}
    /\ fileId' = IF DownloadMounted(path) THEN getFileIdFromPath(path) ELSE JsNull
    /\ downloadStatus' = "loading"
    /\ errorMessage' = ""
    /\ fileInfo' = NoInfo
    /\ effect' = IF DownloadMounted(path) THEN "pending" ELSE "off"
    /\ fetches' = {}
    /\ saves' = 0

\* window.location.reload(), the 'Try Again' / 'Download Again' button
retryDownload ==
    /\ DownloadMounted(currentPath)
    /\ effect = "ran"
    /\ downloadStatus \in {"error", "success"}
    /\ load(currentPath)
    /\ lastOp' = Op("retryDownload", NoResp, 0, TRUE)
    /\ UNCHANGED entries

\* <a href={result.downloadUrl}>: the browser loads the link; an empty href
\* is the current document's own URL.  Links to other origins leave the
\* application.
openDownloadLink ==
    /\ UploadMounted(currentPath)
    /\ result.type = "success"
    /\ result.downloadUrl # <<>> => startsWith(result.downloadUrl, ORIGIN)
    /\ LET path == IF result.downloadUrl = <<>> THEN currentPath
                   ELSE pathname(result.downloadUrl)
       IN  /\ load(path)
           /\ entries' = {path}
    /\ lastOp' = Op("openDownloadLink", NoResp, 0, TRUE)

-----------------------------------------------------------------------------

Init ==
    /\ currentPath \in Paths
    /\ entries = {currentPath}
    /\ selectedFiles = <<>>
    /\ isUploading = FALSE
    /\ uploadProgress = 0
    /\ result = Null
    /\ xhrs = {}
    /\ fileId = IF DownloadMounted(currentPath)
                THEN getFileIdFromPath(currentPath) ELSE JsNull
    /\ downloadStatus = "loading"
    /\ errorMessage = ""
    /\ fileInfo = NoInfo
    /\ effect = IF DownloadMounted(currentPath) THEN "pending" ELSE "off"
    /\ fetches = {}
    /\ saves = 0
    /\ lastOp = Op("load", NoResp, 0, TRUE)

Next ==
    \/ handleFileInputChange
    \/ handleDrop
    \/ removeFile
    \/ clearFiles
    \/ uploadFiles
    \/ progress
    \/ onload
    \/ onerror
    \/ unhandled
    \/ useEffect
    \/ fetchResolves
    \/ fetchRejects
    \/ blobResolves
    \/ blobRejects
    \/ saveThrows
    \/ handlePopState
    \/ goToUpload
    \/ retryDownload
    \/ openDownloadLink

Spec == Init /\ [][Next]_vars

\* The transport ends every request it has been given, with one of its
\* events.
requestEnds == onload \/ onerror \/ unhandled

FairSpec == Spec /\ WF_vars(requestEnds)

-----------------------------------------------------------------------------
(* formatFileSize of FileUploadService and of DownloadPage *)

k == 1024
sizes == <<"Bytes", "KB", "MB", "GB">>

RECURSIVE pow(_, _)
pow(b, e) == IF e = 0 THEN 1 ELSE b * pow(b, e - 1)

\* Math.floor(Math.log(bytes) / Math.log(k)) for bytes >= 1
RECURSIVE floorLog(_)
floorLog(bytes) == IF bytes < k THEN 0 ELSE 1 + floorLog(bytes \div k)

\* sizes[i]; past the end of the array the concatenation prints undefined
sizeName(i) == IF i + 1 \in DOMAIN sizes THEN sizes[i + 1] ELSE "undefined"

\* (bytes / p).toFixed(2), as a count of hundredths: the nearest one, the
\* larger of two that are equally near
toFixed2(bytes, p) == (bytes * 200 + p) \div (2 * p)

\* parseFloat(text) + ' ': the number of the two-decimal text, printed as
\* JavaScript prints numbers, without trailing zeros
parseFloatText_fixed(h) ==
    ToString(h \div 100) \o "."
        \o ToString((h % 100) \div 10) \o ToString(h % 10)
parseFloatText(h) ==
    ToString(h \div 100)
        \o (IF h % 100 = 0 THEN ""
            ELSE IF h % 10 = 0 THEN "." \o ToString((h % 100) \div 10)
            ELSE "." \o ToString((h % 100) \div 10) \o ToString(h % 10))

\* FileUploadService.formatFileSize
uploadFormatFileSize(bytes) ==
    IF bytes = 0 THEN "0 Bytes"
    ELSE LET i == floorLog(bytes)
         IN  parseFloatText(toFixed2(bytes, pow(k, i))) \o " " \o sizeName(i)

\* DownloadPage.formatFileSize: if (!bytes || bytes === 0); NaN is falsy
downloadFormatFileSize(size) ==
    IF size.nan \/ size.n = 0 THEN "0 Bytes"
    ELSE LET i == floorLog(size.n)
         IN  parseFloatText(toFixed2(size.n, pow(k, i))) \o " " \o sizeName(i)

-----------------------------------------------------------------------------
(* The functions of the link, of the routes and of the sizes, applied to    *)
(* inputs of their own: identifiers, paths and byte counts the backend and  *)
(* the address bar can supply.                                              *)

MaxIdLen == 3      \* longest identifier
MaxBytes == 2048   \* byte counts 0..MaxBytes, and some around one megabyte

IdChars == {"a", "b", "?", "/", "\n"}
Ids == UNION {[1..n -> IdChars] : n \in 0..MaxIdLen}
RoutePaths ==
    Paths \cup {DOWNLOAD \o id : id \in Ids} \cup {SLASH \o id : id \in Ids}
          \cup {SubSeq(DOWNLOAD, 1, Len(DOWNLOAD) - 1)}
ByteCounts == 0..MaxBytes \cup {1048575, 1048576, 1572864}

\* a function is applied to one input, in the document as it was loaded
Applied(op, arg, out) == [op |-> op, arg |-> arg, out |-> out]
appVars == <<currentPath, entries, uploadSide, downloadSide>>

\* the backend's link "/download/" + id becomes result.downloadUrl, the
\* anchor loads it, and DownloadPage reads the identifier from the path
roundTrip ==
    \E id \in Ids :
        /\ lastOp.op = "load"
        /\ lastOp' = Applied("roundTrip", id,
                getFileIdFromPath(
                    pathname(frontendDownloadUrl(Str(DOWNLOAD \o id)))))
        /\ UNCHANGED appVars

\* the two Routes of App on one path
Route ==
    \E path \in RoutePaths :
        /\ lastOp.op = "load"
        /\ lastOp' = Applied("Route", path,
                [upload |-> UploadMounted(path),
                 download |-> DownloadMounted(path)])
        /\ UNCHANGED appVars

formatFileSize ==
    \E bytes \in ByteCounts :
        /\ lastOp.op = "load"
        /\ lastOp' = Applied("formatFileSize", bytes,
                [upload |-> uploadFormatFileSize(bytes),
                 download |-> downloadFormatFileSize(Num(bytes))])
        /\ UNCHANGED appVars

FunctionsInit == Init /\ currentPath = SLASH
FunctionsNext ==
    \/ roundTrip
    \/ Route
    \/ formatFileSize

Functions == FunctionsInit /\ [][FunctionsNext]_vars

-----------------------------------------------------------------------------
(* The upload session's status, as FileUploadService renders it: the        *)
(* progress bar while isUploading, the success or the failure panel for a   *)
(* result, the file rows and buttons for a non-empty batch.                 *)

uploadStatus ==
    IF isUploading THEN "Uploading"
    ELSE IF result.type = "success" THEN "Succeeded"
    ELSE IF result.type = "error" THEN "Failed"
    ELSE IF selectedFiles # <<>> THEN "Selected"
    ELSE "Idle"

\* "/download/{id}" with a non-empty id on one line
IsDownloadLink(s) ==
    /\ startsWith(s, DOWNLOAD)
    /\ Len(s) > Len(DOWNLOAD)
    /\ \A j \in 1..Len(s) : s[j] \notin LineTerminators

\* the step is the completion callback `op` of a request of the mounted session
Completes(op) == lastOp'.op = op /\ lastOp'.live

-----------------------------------------------------------------------------
(* Claims *)

\* C1: at most one upload request is in flight per upload session, whatever
\* the user and the transport do: while the session is uploading the Upload
\* button is disabled, so no second POST is issued.
C1_OneUploadInFlight == Cardinality(xhrs) <= 1

\* C1 witness: an upload is in flight and the batch is not empty, so the
\* Upload button is there and disabled.
C1_Witness ==
    /\ isUploading
    /\ Cardinality(xhrs) = 1
    /\ selectedFiles # <<>>
    /\ lastOp.op \in {"handleDrop", "handleFileInputChange"}

\* C2: uploadFiles called with an empty batch issues no request and leaves
\* status, progress, result and batch as they were.
C2_EmptyUploadIsNoOp ==
    [][(lastOp'.op = "uploadFiles" /\ selectedFiles = <<>>)
          => UNCHANGED <<selectedFiles, isUploading, uploadProgress, result, xhrs>>]_vars

\* C2 witness: uploadFiles has just returned early, here while another
\* upload of the same session is still in flight.
C2_Witness ==
    /\ lastOp.op = "uploadFiles"
    /\ selectedFiles = <<>>
    /\ isUploading
    /\ xhrs # {}

C4_FailureMessages ==
    [][LET resp == lastOp'.resp
       IN  /\ (Completes("onload") /\ resp.status \notin 200..299)
                 => /\ uploadStatus' = "Failed"
                    /\ result'.message =
                          IF resp.responseText # "" THEN resp.responseText
                          ELSE "HTTP " \o ToString(resp.status)
           /\ Completes("onerror")
                 => /\ uploadStatus' = "Failed"
                    /\ result'.message = NetworkError
           /\ (Completes("onload") /\ resp.status \in 200..299
                    /\ resp.json.k = "obj")
                 => uploadStatus' # "Failed"]_vars

\* C5 (as claimed): a 200 answer whose body is not JSON ends the session
\* Failed with a message, never Succeeded.
C5_UnparseableBodyFails ==
    [][(/\ Completes("onload")
        /\ lastOp'.resp.status = 200
        /\ lastOp'.resp.json.k = "syntax")
          => /\ uploadStatus' = "Failed"
             /\ result'.message # ""]_vars

\* C6: status and payload of the upload session agree in every reachable
\* state: no result while Uploading, a success record when Succeeded, a
\* non-empty message when Failed.
C6_UploadStatusPayload ==
    /\ isUploading => result = Null
    /\ uploadStatus = "Succeeded"
          => result.type = "success" /\ result.response.k \in {"obj", "text"}
    /\ uploadStatus = "Failed" => result.type = "error" /\ result.message # ""
    /\ result.type \in {"null", "success", "error"}

\* C6 witness: the session is Failed on a 500 without a body, and its
\* result carries the "HTTP 500" message.
C6_Witness ==
    /\ uploadStatus = "Failed"
    /\ lastOp.op = "onload"
    /\ result = Error("HTTP 500")
    /\ selectedFiles # <<>>

\* C7: status and payload of the download session agree in every reachable
\* state: fileInfo when Succeeded, a non-empty message when Failed, neither
\* while the session is still loading.
C7_DownloadStatusPayload ==
    /\ downloadStatus = "success" => fileInfo.set
    /\ downloadStatus = "error" => errorMessage # ""
    /\ downloadStatus = "loading" => ~fileInfo.set /\ errorMessage = ""
    /\ downloadStatus \in {"loading", "success", "error"}

\* C7 witness: a download failed on an error without a message and shows the
\* fallback.
C7_Witness ==
    /\ downloadStatus = "error"
    /\ errorMessage = "Failed to download file"
    /\ ~fileInfo.set

\* C8: progressPercent stays within [0,100], does not decrease from one
\* progress event to the next while the upload is in flight, and is 0
\* whenever the session is not Uploading.
C8_Progress ==
    /\ [](uploadProgress \in 0..100 /\ (~isUploading => uploadProgress = 0))
    /\ [][(isUploading /\ lastOp'.op = "progress")
             => uploadProgress' >= uploadProgress]_vars

\* C8 witness: a progress event has put the bar at 100 while the upload is
\* still in flight.
C8_Witness ==
    /\ lastOp.op = "progress"
    /\ isUploading
    /\ uploadProgress = 100

\* C9 (as claimed): clear() resets the session to Idle with an empty batch
\* and no result from every state, an upload in flight included, and the
\* session stays Idle until files are selected again.
C9_ClearResets ==
    [][/\ lastOp'.op = "clearFiles"
             => /\ uploadStatus' = "Idle"
                /\ selectedFiles' = <<>>
                /\ result' = Null
       /\ (/\ lastOp.op = "clearFiles"
           /\ lastOp'.op \notin {"handleDrop", "handleFileInputChange"})
             => uploadStatus' = "Idle"]_vars

\* C10 (as claimed): removeFile(index) removes exactly the file at index,
\* keeping the order of the others, while the session is Idle or Selected,
\* leaves the session Idle when the batch becomes empty, and does not change
\* the batch while the session is Uploading, Succeeded or Failed.
C10_RemoveOnlyBeforeUpload ==
    [][lastOp'.op = "removeFile"
          => IF uploadStatus \in {"Idle", "Selected"}
             THEN /\ selectedFiles' = without(selectedFiles, lastOp'.idx)
                  /\ selectedFiles' = <<>> => uploadStatus' = "Idle"
             ELSE selectedFiles' = selectedFiles]_vars

\* C11: every uploadFiles with a non-empty batch issues exactly one POST, no
\* other step issues one, and a session that ends Failed has no request left:
\* nothing is retried until the user starts an upload again.
C11_OnePostPerUpload ==
    [][LET posted == {x.id : x \in xhrs'} \ {x.id : x \in xhrs}
       IN  /\ (lastOp'.op = "uploadFiles" /\ ~EmptyBatch(selectedFiles))
                 => Cardinality(posted) = 1
           /\ lastOp'.op # "uploadFiles" => posted = {}
           /\ uploadStatus' = "Failed" => xhrs' = {}]_vars

\* C11 witness: the one request of an upload has failed and none is in flight.
C11_Witness ==
    /\ lastOp.op \in {"onload", "onerror"}
    /\ uploadStatus = "Failed"
    /\ xhrs = {}

\* C12: a DownloadPage mounted on a path that yields no identifier, the bare
\* "/download/" included, issues no request and saves nothing, and once its
\* effect has run it is Failed with the message "No file ID provided".
C12_MissingIdFails ==
    (/\ effect # "off"
     /\ \/ ~Truthy(fileId)
        \/ entries = {currentPath} /\ getFileIdFromPath(currentPath) = JsNull)
       => /\ {f \in fetches : f.live} = {}
          /\ saves = 0
          /\ ~fileInfo.set
          /\ effect = "ran" => /\ downloadStatus = "error"
                               /\ errorMessage = NoFileId

\* C12 witness: the document was loaded at "/download/" and the effect has
\* run.
C12_Witness ==
    /\ currentPath = DOWNLOAD
    /\ entries = {DOWNLOAD}
    /\ effect = "ran"
    /\ downloadStatus = "error"

\* C13: the save is triggered by the callback that follows a fetched 2xx
\* response and its body, once per session and while the session is still
\* Fetching; a session that is Succeeded has saved exactly once and has its
\* fileInfo; the paths that fail for a missing identifier or a non-2xx
\* response save nothing.
C13_SaveOnceOnSuccess ==
    /\ [](/\ saves <= 1
          /\ downloadStatus = "success" => saves = 1 /\ fileInfo.set)
    /\ [][/\ saves' > saves
               => /\ lastOp'.op \in {"blobResolves", "saveThrows"}
                  /\ lastOp'.resp.status \in 200..299
                  /\ saves' = saves + 1
                  /\ downloadStatus = "loading"
          /\ Completes("blobResolves")
               => /\ saves' = saves + 1
                  /\ downloadStatus' = "success"
                  /\ fileInfo'.set
          /\ (\/ lastOp'.op = "useEffect" /\ downloadStatus' = "error"
              \/ Completes("fetchResolves") /\ lastOp'.resp.status \notin 200..299)
               => saves' = 0]_vars

\* C13 witness: the body has arrived, the file has been saved once and the
\* session is Succeeded.
C13_Witness ==
    /\ lastOp.op = "blobResolves"
    /\ lastOp.live
    /\ saves = 1
    /\ downloadStatus = "success"

\* C14: a download response whose status is not 2xx ends the session Failed,
\* with a message made of the numeric status and the status text, and with
\* no fileInfo.
C14_NotOkFails ==
    [][(Completes("fetchResolves") /\ lastOp'.resp.status \notin 200..299)
          => /\ downloadStatus' = "error"
             /\ errorMessage' = "Download failed: "
                                   \o ToString(lastOp'.resp.status)
                                   \o " " \o lastOp'.resp.statusText
             /\ ~fileInfo'.set]_vars

\* C14 witness: the response was 404 Not Found and the session is Failed
\* with both in its message.
C14_Witness ==
    /\ lastOp.op = "fetchResolves"
    /\ lastOp.live
    /\ lastOp.resp.status = 404
    /\ downloadStatus = "error"
    /\ errorMessage = "Download failed: 404 Not Found"

\* C15: every exception of the download (a rejected fetch, the throw for a
\* response that is not ok, a rejected body read, a throw of the calls that
\* save the file) ends the session Failed with the exception's message, or
\* with "Failed to download file" when the message is empty; a session that
\* is Failed stays Failed with its message: it is not left Fetching and does
\* not become Succeeded.
C15_ExceptionsFail ==
    [][/\ (/\ lastOp'.live
           /\ \/ lastOp'.op \in {"fetchRejects", "blobRejects", "saveThrows"}
              \/ lastOp'.op = "fetchResolves" /\ ~lastOp'.resp.ok)
             => /\ downloadStatus' = "error"
                /\ errorMessage' = IF lastOp'.message # ""
                                   THEN lastOp'.message
                                   ELSE "Failed to download file"
       /\ (downloadStatus = "error" /\ effect = "ran" /\ effect' = "ran")
             => /\ downloadStatus' = "error"
                /\ errorMessage' = errorMessage]_vars

\* C15 witness: a call after link.click() threw an error without a message;
\* the session is Failed with the fallback message.
C15_Witness ==
    /\ lastOp.op = "saveThrows"
    /\ lastOp.live
    /\ lastOp.idx = 1
    /\ lastOp.message = ""
    /\ downloadStatus = "error"
    /\ errorMessage = "Failed to download file"

\* C16: the download starts by itself once per DownloadPage instance that
\* has an identifier: the effect issues exactly one GET, nothing else issues
\* one, at most one is in flight for the instance, and an instance whose
\* effect has run gets a new one only through retryDownload, which loads the
\* page again.
C16_OneGetPerSession ==
    /\ [](Cardinality({f \in fetches : f.live}) <= 1)
    /\ [][LET got == {f.id : f \in fetches'} \ {f.id : f \in fetches}
          IN  /\ got # {} => lastOp'.op = "useEffect" /\ effect = "pending"
              /\ (lastOp'.op = "useEffect" /\ Truthy(fileId))
                    => Cardinality(got) = 1
              /\ effect = "ran" => got = {}
              /\ (effect = "ran" /\ effect' = "pending")
                    => lastOp'.op = "retryDownload"]_vars

\* C16 witness: the one GET of an instance with an identifier has failed;
\* the instance is Failed and nothing is in flight.
C16_Witness ==
    /\ effect = "ran"
    /\ Truthy(fileId)
    /\ downloadStatus = "error"
    /\ lastOp.op \in {"fetchResolves", "fetchRejects"}
    /\ fetches = {}

\* C17 (as claimed): for every identifier without a slash, the identifier
\* DownloadPage reads from the frontend URL of "/download/" + id is id.
C17_RoundTripAnyId ==
    (/\ lastOp.op = "roundTrip"
     /\ \A j \in 1..Len(lastOp.arg) : lastOp.arg[j] # "/")
       => lastOp.out = Str(lastOp.arg)

\* C17 (amended): for every identifier that is not empty and has no slash,
\* no line terminator and no "?" or "#", the identifier DownloadPage reads
\* from the frontend URL of "/download/" + id is id.
C17_RoundTrip ==
    (/\ lastOp.op = "roundTrip"
     /\ lastOp.arg # <<>>
     /\ \A j \in 1..Len(lastOp.arg) :
            lastOp.arg[j] \notin {"/", "?", "#"} \cup LineTerminators)
       => lastOp.out = Str(lastOp.arg)

\* C17 witness: the identifier "ab" has gone through the link and come back.
C17_Witness ==
    /\ lastOp.op = "roundTrip"
    /\ lastOp.arg = <<"a", "b">>
    /\ lastOp.out = Str(<<"a", "b">>)

\* C18: every path "/download/" + id mounts DownloadPage and not
\* FileUploadService, the path "/" mounts FileUploadService and not
\* DownloadPage, and no path mounts both.
C18_Routing ==
    lastOp.op = "Route"
       => /\ (\E id \in Ids : lastOp.arg = DOWNLOAD \o id)
                => lastOp.out.download /\ ~lastOp.out.upload
          /\ lastOp.arg = SLASH
                => lastOp.out.upload /\ ~lastOp.out.download
          /\ ~(lastOp.out.upload /\ lastOp.out.download)

\* C18 witness: the path "/download/a" has mounted DownloadPage alone.
C18_Witness ==
    /\ lastOp.op = "Route"
    /\ lastOp.arg = DOWNLOAD \o <<"a">>
    /\ lastOp.out.download
    /\ ~lastOp.out.upload

\* C19 (as claimed): the size in fileInfo after a successful download is the
\* integer of the Content-Length header when the header is present and is a
\* decimal number, the byte length of the body when the header is absent or
\* is not a number, and in every case an integer that is not negative.
C19_SizeFromHeaderOrBody ==
    [][Completes("blobResolves")
          => LET header == lastOp'.resp.contentLength
                 parseable == /\ Truthy(header)
                              /\ \A j \in 1..Len(header.s) : header.s[j] \in Digits
             IN  /\ fileInfo'.size = IF parseable
                                     THEN Num(decimal(header.s))
                                     ELSE Num(lastOp'.resp.blobSize)
                 /\ ~fileInfo'.size.nan
                 /\ fileInfo'.size.n >= 0]_vars

\* C20 (as claimed): 0 bytes is "0 Bytes", 1024 bytes is "1.00 KB", 1536
\* bytes is "1.50 KB", and the two formatters give the same text for every
\* byte count.
C20_FormatSizeTwoDecimals ==
    lastOp.op = "formatFileSize"
       => /\ lastOp.arg = 0 => lastOp.out.upload = "0 Bytes"
          /\ lastOp.arg = 1024 => lastOp.out.upload = "1.00 KB"
          /\ lastOp.arg = 1536 => lastOp.out.upload = "1.50 KB"
          /\ lastOp.out.upload = lastOp.out.download

\* C20 (amended): 0 bytes is "0 Bytes", 1024 bytes is "1 KB", 1536 bytes is
\* "1.5 KB" (at most two decimals, trailing zeros dropped), and the two
\* formatters give the same text for every byte count.
C20_FormatSize ==
    lastOp.op = "formatFileSize"
       => /\ lastOp.arg = 0 => lastOp.out.upload = "0 Bytes"
          /\ lastOp.arg = 1024 => lastOp.out.upload = "1 KB"
          /\ lastOp.arg = 1536 => lastOp.out.upload = "1.5 KB"
          /\ lastOp.out.upload = lastOp.out.download

\* C20 witness: both formatters have printed 1536 bytes as "1.5 KB".
C20_Witness ==
    /\ lastOp.op = "formatFileSize"
    /\ lastOp.arg = 1536
    /\ lastOp.out.upload = "1.5 KB"
    /\ lastOp.out.download = "1.5 KB"

\* C21 (as claimed): every file that the successful completion of an upload
\* removes from the batch was part of the request that completed; files
\* selected or dropped while the request was in flight stay in the batch.
C21_CompletionRemovesOnlySubmitted ==
    [][(Completes("onload") /\ result'.type = "success")
          => \A i \in 1..Len(selectedFiles) :
                (\A j \in 1..Len(selectedFiles') :
                     selectedFiles'[j] # selectedFiles[i])
                   => \E x \in xhrs \ xhrs' :
                         \E n \in 1..Len(x.files) :
                             x.files[n] = selectedFiles[i]]_vars

\* C22 (as claimed): every started upload leaves Uploading, whichever event
\* ends the request (load, error, abort, timeout), and the session it leaves
\* Uploading for is Succeeded or Failed.
C22_UploadEnds ==
    /\ isUploading ~> ~isUploading
    /\ [][(isUploading /\ ~isUploading' /\ UploadMounted(currentPath'))
             => uploadStatus' \in {"Succeeded", "Failed"}]_vars

\* C23 (as claimed): whenever the upload session is Succeeded its download
\* URL is not empty and comes from a link of the response: a response with
\* none of downloadLink, url, link does not end Succeeded.
C23_SucceededHasUrl ==
    uploadStatus = "Succeeded"
       => /\ result.downloadUrl # <<>>
          /\ Truthy(result.backendUrl)

\* C24: the completion of an upload that fails leaves the batch as it was
\* when the failure arrived, same files in the same order, and changes only
\* result, isUploading and uploadProgress; the next uploadFiles sends that
\* batch.
C24_FailureKeepsBatch ==
    [][/\ ((Completes("onload") \/ Completes("onerror")) /\ result'.type = "error")
             => /\ selectedFiles' = selectedFiles
                /\ UNCHANGED <<currentPath, entries>>
                /\ UNCHANGED downloadSide
                /\ uploadStatus' = "Failed"
       /\ (uploadStatus = "Failed" /\ lastOp'.op = "uploadFiles"
              /\ ~EmptyBatch(selectedFiles))
             => \E x \in xhrs' \ xhrs : x.files = selectedFiles]_vars

\* C24 witness: the request for [f1, f2] has failed and the batch is still
\* [f1, f2].
C24_Witness ==
    /\ lastOp.op \in {"onload", "onerror"}
    /\ lastOp.live
    /\ result.type = "error"
    /\ selectedFiles = <<"f1", "f2">>

\* C25 (as claimed): a download whose page was left while its GET was in
\* flight does not save the file when the response arrives: link.click()
\* runs only for a request whose DownloadPage is still mounted.
C25_NoSaveAfterLeaving ==
    [][lastOp'.click => lastOp'.live]_vars

====
